---- MODULE Spec2Model ----
(***************************************************************************)
(* The attendance backend of server.js: the user collection, the           *)
(* attendance ledger, the process clock, and the request handlers           *)
(* POST /api/users/register, POST /api/qr/scan, POST /api/auto-absent and   *)
(* GET /api/attendance/:userId/:month/:year.                                *)
(*                                                                         *)
(* A handler is a chain of database operations separated by awaits.  Each   *)
(* action below is one database operation, or one synchronous segment that  *)
(* reads the clock; other requests and clock ticks may run between two      *)
(* actions of the same request.                                             *)
(***************************************************************************)
EXTENDS Integers, FiniteSets, Bags, TLC

VARIABLES
    now,      \* the process clock, in ms since local midnight of the model's day 0
    users,    \* the User collection: userId -> document
    ledger,   \* the Attendance collection: a bag of documents
    req,      \* per request slot: the handler's position, locals and response
    summary   \* the last response of the monthly summary route

vars == <<now, users, ledger, req, summary>>

(***************************************************************************)
(* Bounds of the model.                                                     *)
(***************************************************************************)
MaxTick == 3       \* the clock is read at the instants 0..MaxTick of Instant
MaxLedger == 2     \* the ledger holds at most this many documents

Procs == {"r1", "r2"}          \* request slots: two requests may be in flight
UserIds == {"U1", "U2"}
Buses == {"B1", "B2"}
Roles == {"user", "admin"}
Names == {"Alice"}

(***************************************************************************)
(* Time.  setHours(0,0,0,0) and setHours(23,59,59,999) of the same day.     *)
(***************************************************************************)
MsPerDay == 86400000

HmsMs(h, m, s, ms) == ((h * 60 + m) * 60 + s) * 1000 + ms

StartOfDay(t) == (t \div MsPerDay) * MsPerDay + HmsMs(0, 0, 0, 0)

EndOfDay(t) == (t \div MsPerDay) * MsPerDay + HmsMs(23, 59, 59, 999)

DayOf(t) == t \div MsPerDay

\* The instants the clock is observed at: the first and the last millisecond
\* of day 0, then of day 1, and so on.
Instant(k) ==
    (k \div 2) * MsPerDay
        + (IF k % 2 = 0 THEN HmsMs(0, 0, 0, 0) ELSE HmsMs(23, 59, 59, 999))

Instants == {Instant(k) : k \in 0..MaxTick}

(***************************************************************************)
(* Documents.                                                               *)
(***************************************************************************)
NoQr == [kind |-> "none", userId |-> "", name |-> "", bus |-> "", role |-> ""]

\* JSON.stringify({ userId, name, bus, role }) and, at the scanner, JSON.parse
QrEncode(userId, name, bus, role) ==
    [kind |-> "json", userId |-> userId, name |-> name, bus |-> bus, role |-> role]

NewUser(name, userId, bus, role) ==
    [name |-> name, userId |-> userId, bus |-> bus, role |-> role,
     qrCode |-> IF role = "user" THEN QrEncode(userId, name, bus, role) ELSE NoQr,
     attendance |-> "Absent"]

NewAttendance(userId, bus, date, status) ==
    [userId |-> userId, bus |-> bus, date |-> date, status |-> status]

Insert(l, doc) == l (+) SetToBag({doc})

\* Attendance.findOne({ userId, date: { $gte: start, $lt: end } })
FindOne(l, userId, start, end) ==
    \E e \in BagToSet(l) : e.userId = userId /\ e.date >= start /\ e.date < end

Registered == DOMAIN users

(***************************************************************************)
(* Request slots.                                                           *)
(***************************************************************************)
Idle == [pc |-> "idle", uid |-> "", adminBus |-> "", start |-> 0, end |-> 0,
         date |-> 0, todo |-> {}, res |-> "none"]

Init ==
    /\ now = 0
    /\ users = [u \in {} |-> NoQr]
    /\ ledger = EmptyBag
    /\ req = [p \in Procs |-> Idle]
    /\ summary = [kind |-> "none"]

Tick ==
    /\ \E t \in Instants : t > now /\ now' = t
    /\ UNCHANGED <<users, ledger, req, summary>>

(***************************************************************************)
(* POST /api/users/register                                                 *)
(***************************************************************************)
Register(name, userId, bus, role, password) ==
    /\ IF name = "" \/ bus = "" \/ role = "" \/ password = "" \/ userId = ""
          THEN UNCHANGED users                           \* 400
          ELSE IF userId \in Registered
                  THEN UNCHANGED users                   \* unique index: 500
                  ELSE users' = users @@ (userId :> NewUser(name, userId, bus, role))
    /\ UNCHANGED <<now, ledger, req, summary>>

\* The request bodies tried for the user ids of `ids`: every complete one, and
\* one with a field missing
RegisterInputs(ids) ==
    {<<n, u, b, r, "pw">> : n \in Names, u \in ids, b \in Buses, r \in Roles}
    \cup {<<"", "U1", "B1", "user", "pw">>}

(***************************************************************************)
(* POST /api/qr/scan                                                        *)
(***************************************************************************)
Payloads ==
    {[kind |-> k, userId |-> "", name |-> "", bus |-> "", role |-> ""] :
        k \in {"missing", "malformed", "null"}}
    \cup {QrEncode(u, n, b, "user") :
            u \in UserIds \cup {""}, n \in Names, b \in Buses \cup {""}}

AdminBuses == Buses \cup {""}

\* The requests tried, <<scannedData, adminBus, whether User.findOne succeeds>>:
\* every payload at every station, and a lookup that fails
ScanInputs ==
    {<<pl, ab, TRUE>> : pl \in Payloads, ab \in AdminBuses}
    \cup {<<QrEncode("U1", "Alice", "B1", "user"), ab, FALSE>> : ab \in Buses}

\* ScanOutcome without the comparison of the payload's group
ScanOutcomeNoGroupCheck(payload, adminBus, storeOk) ==
    IF payload.kind = "missing" \/ adminBus = "" THEN "BadRequest"
    ELSE IF payload.kind = "malformed" THEN "MalformedPayload"
    ELSE IF payload.kind = "null" THEN "ServerError"
    ELSE IF payload.userId = "" THEN "MissingIdentityField"
    ELSE IF ~storeOk THEN "ServerError"
    ELSE IF payload.userId \notin Registered THEN "IdentityNotFound"
    ELSE "Proceed"

\* The outcome of the handler up to and including User.findOne
ScanOutcome(payload, adminBus, storeOk) ==
    IF payload.kind = "missing" \/ adminBus = "" THEN "BadRequest"
    ELSE IF payload.kind = "malformed" THEN "MalformedPayload"
    ELSE IF payload.kind = "null" THEN "ServerError"
    ELSE IF payload.userId = "" THEN "MissingIdentityField"
    ELSE IF ~storeOk THEN "ServerError"
    ELSE IF payload.userId \notin Registered THEN "IdentityNotFound"
    ELSE IF payload.bus # adminBus THEN "GroupMismatch"
    ELSE "Proceed"

\* res.status(...).json(...): the response is on its way to the client
Respond(p, r) == req' = [req EXCEPT ![p] = [Idle EXCEPT !.pc = "responded", !.res = r]]

\* The client has the response; the slot is free for the next request
Reply(p) ==
    /\ req[p].pc = "responded"
    /\ req' = [req EXCEPT ![p] = Idle]
    /\ UNCHANGED <<now, users, ledger, summary>>

ScanLookup(p, payload, adminBus, storeOk) ==
    /\ req[p].pc = "idle"
    /\ LET out == ScanOutcome(payload, adminBus, storeOk)
       IN  IF out = "Proceed"
              THEN req' = [req EXCEPT ![p] = [Idle EXCEPT !.pc = "scanSave",
                                                !.uid = payload.userId,
                                                !.adminBus = adminBus]]
              ELSE Respond(p, out)
    /\ UNCHANGED <<now, users, ledger, summary>>

\* ScanSaveUser without the assignment to user.attendance
ScanSaveUserNoFlag(p) ==
    /\ req[p].pc = "scanSave"
    /\ req' = [req EXCEPT ![p].pc = "scanQuery",
                          ![p].start = StartOfDay(now),
                          ![p].end = EndOfDay(now)]
    /\ UNCHANGED <<now, users, ledger, summary>>

\* user.attendance = "Present"; await user.save(); then the day window
ScanSaveUser(p) ==
    /\ req[p].pc = "scanSave"
    /\ users' = [users EXCEPT ![req[p].uid].attendance = "Present"]
    /\ req' = [req EXCEPT ![p].pc = "scanQuery",
                          ![p].start = StartOfDay(now),
                          ![p].end = EndOfDay(now)]
    /\ UNCHANGED <<now, ledger, summary>>

ScanQuery(p) ==
    /\ req[p].pc = "scanQuery"
    /\ IF FindOne(ledger, req[p].uid, req[p].start, req[p].end)
          THEN Respond(p, "Ok")
          ELSE req' = [req EXCEPT ![p].pc = "scanBuild"]
    /\ UNCHANGED <<now, users, ledger, summary>>

\* new Attendance({...}): date defaults to Date.now
ScanBuild(p) ==
    /\ req[p].pc = "scanBuild"
    /\ req' = [req EXCEPT ![p].pc = "scanInsert", ![p].date = now]
    /\ UNCHANGED <<now, users, ledger, summary>>

ScanInsert(p) ==
    /\ req[p].pc = "scanInsert"
    /\ BagCardinality(ledger) < MaxLedger
    /\ ledger' = Insert(ledger, NewAttendance(req[p].uid, users[req[p].uid].bus,
                                              req[p].date, "Present"))
    /\ Respond(p, "Ok")
    /\ UNCHANGED <<now, users, summary>>

(***************************************************************************)
(* POST /api/auto-absent                                                    *)
(***************************************************************************)
SweepBegin(p) ==
    /\ req[p].pc = "idle"
    /\ req' = [req EXCEPT ![p] = [Idle EXCEPT !.pc = "sweepFind",
                                        !.start = StartOfDay(now),
                                        !.end = EndOfDay(now)]]
    /\ UNCHANGED <<now, users, ledger, summary>>

\* Move to the next user of the loop, or respond when none is left
SweepContinue(p, todo) ==
    IF todo = {}
       THEN Respond(p, "Ok")
       ELSE req' = [req EXCEPT ![p].pc = "sweepQuery", ![p].todo = todo,
                               ![p].uid = "", ![p].date = 0]

\* User.find({ role: "user" })
SweepFind(p) ==
    /\ req[p].pc = "sweepFind"
    /\ SweepContinue(p, {u \in Registered : users[u].role = "user"})
    /\ UNCHANGED <<now, users, ledger, summary>>

SweepQuery(p) ==
    /\ req[p].pc = "sweepQuery"
    /\ \E u \in req[p].todo :
          IF FindOne(ledger, u, req[p].start, req[p].end)
             THEN SweepContinue(p, req[p].todo \ {u})
             ELSE req' = [req EXCEPT ![p].pc = "sweepBuild", ![p].uid = u]
    /\ UNCHANGED <<now, users, ledger, summary>>

SweepBuild(p) ==
    /\ req[p].pc = "sweepBuild"
    /\ req' = [req EXCEPT ![p].pc = "sweepInsert", ![p].date = now]
    /\ UNCHANGED <<now, users, ledger, summary>>

SweepInsert(p) ==
    /\ req[p].pc = "sweepInsert"
    /\ BagCardinality(ledger) < MaxLedger
    /\ ledger' = Insert(ledger, NewAttendance(req[p].uid, users[req[p].uid].bus,
                                              req[p].date, "Absent"))
    /\ SweepContinue(p, req[p].todo \ {req[p].uid})
    /\ UNCHANGED <<now, users, summary>>

\* A database operation that a request is waiting for fails: the handler's
\* catch answers 500
StoreFail(p) ==
    /\ req[p].pc \in {"scanSave", "scanQuery", "scanInsert",
                      "sweepFind", "sweepQuery", "sweepInsert"}
    /\ Respond(p, "ServerError")
    /\ UNCHANGED <<now, users, ledger, summary>>

(***************************************************************************)
(* The calendar of Date: new Date(year, month, day, ...) and getDate(),     *)
(* in days since 1 January 1970 (local time on both sides).                 *)
(***************************************************************************)
\* A year argument of 0..99 means 1900..1999
DateYear(y) == IF 0 <= y /\ y <= 99 THEN 1900 + y ELSE y

DaysInYear(y) ==
    IF y % 4 # 0 THEN 365
    ELSE IF y % 100 # 0 THEN 366
    ELSE IF y % 400 # 0 THEN 365
    ELSE 366

DayFromYear(y) ==
    365 * (y - 1970) + ((y - 1969) \div 4) - ((y - 1901) \div 100)
        + ((y - 1601) \div 400)

\* The day within its year of the first day of month m (0 = January)
MonthStart(m, leap) ==
    LET l == IF leap THEN 1 ELSE 0
    IN  CASE m = 0 -> 0
          [] m = 1 -> 31
          [] m = 2 -> 59 + l
          [] m = 3 -> 90 + l
          [] m = 4 -> 120 + l
          [] m = 5 -> 151 + l
          [] m = 6 -> 181 + l
          [] m = 7 -> 212 + l
          [] m = 8 -> 243 + l
          [] m = 9 -> 273 + l
          [] m = 10 -> 304 + l
          [] m = 11 -> 334 + l

\* The day number of (year, month, date); month and date may run over
MakeDay(year, month, date) ==
    LET ym == year + (month \div 12)
        mn == month % 12
    IN  DayFromYear(ym) + MonthStart(mn, DaysInYear(ym) = 366) + date - 1

\* The year y with DayFromYear(y) <= d < DayFromYear(y + 1), looked for around
\* the 400-year cycle (146097 days) that d falls in
YearFromDay(d) ==
    LET q == d \div 146097
        r == d % 146097
        lo == 1970 + 400 * q + (r \div 366) - 1
        hi == 1970 + 400 * q + (r \div 365) + 1
    IN  CHOOSE y \in lo..hi : DayFromYear(y) <= d /\ d < DayFromYear(y + 1)

MonthFromDay(d) ==
    LET y == YearFromDay(d)
        w == d - DayFromYear(y)
        leap == DaysInYear(y) = 366
    IN  CHOOSE m \in 0..11 :
            /\ MonthStart(m, leap) <= w
            /\ m < 11 => w < MonthStart(m + 1, leap)

\* getDate()
DateFromDay(d) ==
    LET y == YearFromDay(d)
        w == d - DayFromYear(y)
    IN  w - MonthStart(MonthFromDay(d), DaysInYear(y) = 366) + 1

\* Day 0 of the model's clock is 29 February 2024
BaseDay == MakeDay(2024, 1, 29)

CalendarDay(t) == BaseDay + DayOf(t)

(***************************************************************************)
(* GET /api/attendance/:userId/:month/:year                                 *)
(***************************************************************************)
\* TotalDays with the month of the window's start: new Date(year, month - 1, 0)
TotalDaysOfPreviousMonth(year, month) ==
    DateFromDay(MakeDay(DateYear(year), month - 1, 0))

\* new Date(year, month, 0).getDate()
TotalDays(year, month) == DateFromDay(MakeDay(DateYear(year), month, 0))

\* date: { $gte: new Date(year, month - 1, 1), $lte: new Date(year, month, 0, 23, 59, 59) }
InMonth(t, year, month) ==
    LET first == MakeDay(DateYear(year), month - 1, 1)
        last == MakeDay(DateYear(year), month, 0)
    IN  /\ CalendarDay(t) >= first
        /\ \/ CalendarDay(t) < last
           \/ CalendarDay(t) = last /\ t % MsPerDay <= HmsMs(23, 59, 59, 0)

\* MonthlySummary with absentDays counted from the Absent records
MonthlySummaryCountingAbsent(l, userId, month, year) ==
    LET R == {e \in BagToSet(l) : e.userId = userId /\ InMonth(e.date, year, month)}
        records == [e \in R |-> l[e]]
        P == {e \in R : e.status = "Present"}
        A == {e \in R : e.status = "Absent"}
    IN  [kind |-> "summary", userId |-> userId, month |-> month, year |-> year,
         totalDays |-> TotalDays(year, month),
         presentDays |-> BagCardinality([e \in P |-> l[e]]),
         absentDays |-> BagCardinality([e \in A |-> l[e]]),
         details |-> records]

MonthlySummary(l, userId, month, year) ==
    LET R == {e \in BagToSet(l) : e.userId = userId /\ InMonth(e.date, year, month)}
        records == [e \in R |-> l[e]]
        P == {e \in R : e.status = "Present"}
        presentDays == BagCardinality([e \in P |-> l[e]])
        totalDays == TotalDays(year, month)
    IN  [kind |-> "summary", userId |-> userId, month |-> month, year |-> year,
         totalDays |-> totalDays, presentDays |-> presentDays,
         absentDays |-> totalDays - presentDays, details |-> records]

GetSummary(userId, month, year) ==
    /\ summary' = MonthlySummary(ledger, userId, month, year)
    /\ UNCHANGED <<now, users, ledger, req>>

Next ==
    \/ Tick
    \/ \E i \in RegisterInputs({"U1"}) : Register(i[1], i[2], i[3], i[4], i[5])
    \/ \E p \in Procs, i \in ScanInputs : ScanLookup(p, i[1], i[2], i[3])
    \/ \E p \in Procs : ScanSaveUser(p)
    \/ \E p \in Procs : ScanQuery(p)
    \/ \E p \in Procs : ScanBuild(p)
    \/ \E p \in Procs : ScanInsert(p)
    \/ \E p \in Procs : SweepBegin(p)
    \/ \E p \in Procs : SweepFind(p)
    \/ \E p \in Procs : SweepQuery(p)
    \/ \E p \in Procs : SweepBuild(p)
    \/ \E p \in Procs : SweepInsert(p)
    \/ \E p \in Procs : StoreFail(p)
    \/ \E p \in Procs : Reply(p)

\* Two requests in flight at once, over one registered identity ("U2" stays an
\* unknown id).
Spec == Init /\ [][Next]_vars

\* One scan or sweep at a time, each running to its response before the next
\* starts, over both identities.
SerialNext ==
    \/ Tick
    \/ \E i \in RegisterInputs(UserIds) : Register(i[1], i[2], i[3], i[4], i[5])
    \/ \E i \in ScanInputs : ScanLookup("r1", i[1], i[2], i[3])
    \/ ScanSaveUser("r1")
    \/ ScanQuery("r1")
    \/ ScanBuild("r1")
    \/ ScanInsert("r1")
    \/ SweepBegin("r1")
    \/ SweepFind("r1")
    \/ SweepQuery("r1")
    \/ SweepBuild("r1")
    \/ SweepInsert("r1")
    \/ StoreFail("r1")
    \/ Reply("r1")

SerialSpec == Init /\ [][SerialNext]_vars

(***************************************************************************)
(* The summary route on its own.  It only reads the ledger, so its          *)
(* specification starts from ledgers the other routes leave behind and      *)
(* asks for every month of the years below.                                 *)
(***************************************************************************)
Years == {0, 1, 4, 99, 100, 1900, 2000, 2023, 2024, 2100, 275759}

ReportEntries ==
    {NewAttendance("U1", "B1", Instant(0), "Present"),
     NewAttendance("U1", "B1", Instant(1), "Absent"),
     NewAttendance("U1", "B1", Instant(2), "Present")}

ReportInit ==
    /\ now = Instant(2)
    /\ \E S \in SUBSET ReportEntries :
          /\ ledger = SetToBag(S)
          /\ users = ("U1" :> [NewUser("Alice", "U1", "B1", "user") EXCEPT
                                  !.attendance =
                                      IF \E e \in S : e.status = "Present"
                                         THEN "Present" ELSE "Absent"])
    /\ req = [p \in Procs |-> Idle]
    /\ summary = [kind |-> "none"]

ReportNext == \E u \in UserIds, m \in 1..12, y \in Years : GetSummary(u, m, y)

ReportSpec == ReportInit /\ [][ReportNext]_vars

(***************************************************************************)
(* Properties.                                                              *)
(***************************************************************************)
\* No request is in progress
Quiescent == \A p \in Procs : req[p].pc = "idle"

\* The number of documents of a user dated in calendar day d
CountDay(l, userId, d) ==
    LET S == {e \in BagToSet(l) : e.userId = userId /\ DayOf(e.date) = d}
    IN  BagCardinality([e \in S |-> l[e]])

\* A user has an entry dated in calendar day d with the given status
HasEntry(l, userId, d, status) ==
    \E e \in BagToSet(l) : e.userId = userId /\ DayOf(e.date) = d /\ e.status = status

\* The decoded payload's group differs from the scanning station's group
Mismatch(payload, adminBus) == payload.kind = "json" /\ payload.bus # adminBus

Rejections ==
    {"BadRequest", "MissingIdentityField", "IdentityNotFound", "GroupMismatch",
     "ServerError"}

\* Slot p answers this step
Answers(p, r) == req[p].pc # "responded" /\ req'[p].pc = "responded" /\ req'[p].res = r

\* Slot p's scan ends with success in this step, begun and ended in one
\* calendar day
ScanEndsOk(p) ==
    /\ req[p].pc \in {"scanQuery", "scanInsert"}
    /\ Answers(p, "Ok")
    /\ DayOf(req[p].start) = DayOf(now)

\* Slot p's sweep inserts an entry in this step
SweepInserts(p) == req[p].pc = "sweepInsert" /\ ledger' # ledger

\* The month and year of the clock, as a client asks for "this month"
ThisMonth == MonthFromDay(CalendarDay(now)) + 1

ThisYear == YearFromDay(CalendarDay(now))

NeverScanned(userId) ==
    /\ users[userId].attendance = "Absent"
    /\ \A e \in BagToSet(ledger) : e.userId = userId => e.status = "Absent"

\* The number of days of a month by the Gregorian rule
GregorianDays(year, month) ==
    IF month = 2
       THEN IF (year % 4 = 0 /\ year % 100 # 0) \/ year % 400 = 0 THEN 29 ELSE 28
       ELSE IF month \in {4, 6, 9, 11} THEN 30 ELSE 31

\* C1 as claimed: a scan whose decoded payload group differs from the scanning
\* group (both arguments given, the store answering) is rejected with
\* GroupMismatch and changes neither the ledger nor any user.
C1_MismatchIsGroupMismatch ==
    [][\A p \in Procs :
          (req[p].pc = "idle" /\ req'[p].pc # "idle")
              => \A i \in ScanInputs :
                    (/\ Mismatch(i[1], i[2])
                     /\ i[2] # "" /\ i[3]
                     /\ ScanLookup(p, i[1], i[2], i[3]))
                        => /\ Answers(p, "GroupMismatch")
                           /\ ledger' = ledger
                           /\ users' = users]_vars

\* C1 amended: a scan whose decoded payload group differs from the scanning
\* group is rejected and changes neither the ledger nor any user; the rejection
\* is GroupMismatch exactly when both arguments are given, the payload's
\* identity key is present and registered and the lookup succeeds, and is
\* otherwise the error of the earlier step.
C1_MismatchRejectedNoEffect ==
    [][\A p \in Procs :
          (req[p].pc = "idle" /\ req'[p].pc # "idle")
              => \A i \in ScanInputs :
                    (Mismatch(i[1], i[2]) /\ ScanLookup(p, i[1], i[2], i[3]))
                        => /\ \E r \in Rejections : Answers(p, r)
                           /\ ledger' = ledger
                           /\ users' = users
                           /\ req'[p].res = "GroupMismatch"
                                  <=> (i[2] # "" /\ i[3] /\ i[1].userId \in Registered)]_vars

\* C1 witness: a scan of a registered identity has been answered GroupMismatch
C1_Witness ==
    \E p \in Procs :
        /\ req[p].pc = "responded" /\ req[p].res = "GroupMismatch"
        /\ Cardinality(Registered) = 2

\* C2 as claimed: a successful scan of an identity that already has exactly one
\* entry today, a Present one left by an earlier scan, inserts nothing: the
\* day keeps exactly one entry, with status Present.
C2_RescanInsertsNothing ==
    [][\A p \in Procs :
          (/\ ScanEndsOk(p)
           /\ CountDay(ledger, req[p].uid, DayOf(now)) = 1
           /\ HasEntry(ledger, req[p].uid, DayOf(now), "Present"))
              => ledger' = ledger]_vars

\* C3 as claimed: a sweep inserts an entry for an identity only when the
\* identity has no entry dated in the sweep's day (so a second run the same day
\* inserts nothing), and no step of a sweep changes the number of copies of a
\* Present entry.
C3_SweepTwiceInsertsNothing ==
    [][\A p \in Procs :
          /\ (SweepInserts(p) /\ DayOf(req[p].start) = DayOf(now))
                => CountDay(ledger, req[p].uid, DayOf(now)) = 0
          /\ req[p].pc \in {"sweepFind", "sweepQuery", "sweepBuild", "sweepInsert"}
                => \A e \in BagToSet(ledger) :
                      e.status = "Present"
                          => /\ e \in BagToSet(ledger')
                             /\ ledger'[e] >= ledger[e]]_vars

\* C4 as claimed: in every reachable state the ledger holds at most one entry
\* per identity key and calendar date.
C4_AtMostOnePerDay ==
    \A e \in BagToSet(ledger) : CountDay(ledger, e.userId, DayOf(e.date)) <= 1

\* C5 as claimed: whenever a scan inserts an entry, the group written into the
\* entry (the identity's group) is the scanning station's group.
C5_EntryGroupIsStation ==
    [][\A p \in Procs :
          (req[p].pc = "scanInsert" /\ ledger' # ledger)
              => \A e \in BagToSet(ledger') :
                    (e \notin BagToSet(ledger) \/ ledger'[e] > ledger[e])
                        => e.bus = req[p].adminBus]_vars

\* C6 as claimed: when the sweep inserts an Absent entry for an identity that
\* was never scanned, this month's summary of that identity reports one more
\* absent day than it did before the insert.
C6_AbsentDaysIncremented ==
    [][\A p \in Procs :
          (SweepInserts(p) /\ NeverScanned(req[p].uid))
              => MonthlySummary(ledger', req[p].uid, ThisMonth, ThisYear).absentDays
                    = MonthlySummary(ledger, req[p].uid, ThisMonth, ThisYear).absentDays
                        + 1]_vars

\* C6 amended: when the sweep inserts an Absent entry for an identity that was
\* never scanned, this month's summary of that identity reports the same
\* absentDays as before the insert, namely totalDays: Absent entries are not
\* counted.
C6_AbsentDaysUnchanged ==
    [][\A p \in Procs :
          (SweepInserts(p) /\ NeverScanned(req[p].uid))
              => LET before == MonthlySummary(ledger, req[p].uid, ThisMonth, ThisYear)
                     after == MonthlySummary(ledger', req[p].uid, ThisMonth, ThisYear)
                 IN  /\ after.absentDays = before.absentDays
                     /\ after.absentDays = after.totalDays]_vars

\* C6 witness: the sweep has left an Absent entry, dated in the month the
\* summary covers, for a never scanned identity
C6_Witness ==
    \E e \in BagToSet(ledger) :
        /\ e.status = "Absent"
        /\ NeverScanned(e.userId)
        /\ InMonth(e.date, ThisYear, ThisMonth)
        /\ Quiescent

\* C7 as claimed: for every year and every month, the summary's totalDays is
\* the number of days of that month by the Gregorian leap-year rule.
C7_TotalDaysGregorian ==
    summary.kind = "summary"
        => summary.totalDays = GregorianDays(summary.year, summary.month)

\* C7 amended: for every year other than 0 and every month, the summary's
\* totalDays is the number of days of that month by the Gregorian leap-year
\* rule, whatever the ledger contains.
C7_TotalDaysGregorianFromYear1 ==
    (summary.kind = "summary" /\ summary.year # 0)
        => summary.totalDays = GregorianDays(summary.year, summary.month)

\* C7 witness: a summary of February 2024, over a ledger with entries in it,
\* reports 29 days
C7_Witness ==
    /\ summary.kind = "summary"
    /\ summary.year = 2024 /\ summary.month = 2
    /\ summary.totalDays = 29
    /\ summary.details # EmptyBag

\* C8 as claimed: a successful scan of an identity that has an Absent entry
\* today leaves the ledger as it is (the entry stays Absent, no second entry),
\* and the identity's flag is Present.
C8_ScanAfterAbsentInsertsNothing ==
    [][\A p \in Procs :
          (ScanEndsOk(p) /\ HasEntry(ledger, req[p].uid, DayOf(now), "Absent"))
              => /\ ledger' = ledger
                 /\ users'[req[p].uid].attendance = "Present"]_vars

\* C9 as claimed: when the existence check of a scan or of a sweep finds no
\* entry, the identity has no entry dated anywhere in the day of the check's
\* window, midnight to midnight.
C9_CheckCoversWholeDay ==
    [][\A p \in Procs :
          ((req[p].pc = "scanQuery" /\ req'[p].pc = "scanBuild")
              \/ (req[p].pc = "sweepQuery" /\ req'[p].pc = "sweepBuild"))
              => CountDay(ledger, req'[p].uid, DayOf(req[p].start)) = 0]_vars

\* C10 as claimed: when no request is in progress, an identity's flag is
\* Present exactly when the ledger holds a Present entry of it dated today.
C10_FlagIffPresentToday ==
    Quiescent
        => \A u \in Registered :
              users[u].attendance = "Present"
                  <=> HasEntry(ledger, u, DayOf(now), "Present")

\* C10 amended: when no request is in progress, an identity whose ledger holds
\* a Present entry dated today has its flag Present (the flag may also be
\* Present without such an entry).
C10_PresentTodayImpliesFlag ==
    Quiescent
        => \A u \in Registered :
              HasEntry(ledger, u, DayOf(now), "Present")
                  => users[u].attendance = "Present"

\* C10 witness: at rest, an identity with a Present entry dated today
C10_Witness ==
    /\ Quiescent
    /\ \E u \in Registered : HasEntry(ledger, u, DayOf(now), "Present")
    /\ now > 0

====
